---- MODULE Spec2Model ----
(***************************************************************************)
(* Session manager of the elderly chat client (ElderlyAuthProvider), the   *)
(* login page, and the two versions of the chat page.                      *)
(*                                                                         *)
(* Times are JavaScript Date values: integer milliseconds.  An optional    *)
(* value (T | null) is a sequence: <<>> is null, <<x>> is the value x.     *)
(***************************************************************************)
EXTENDS Integers, Sequences, FiniteSets, TLC

VARIABLES
    now,             \* the wall clock read by new Date() / Date.now(), in ms
    token,           \* useState<string | null>
    elderlyData,     \* useState<ElderlyData | null>
    lastActivity,    \* useState<Date | null>
    tokenCreatedAt,  \* useState<Date | null>
    logoutWarning,   \* useState<string | null>
    storage,         \* localStorage, the four fixed keys
    intervalDue,     \* the setInterval of the expiry effect: null, or when it is next due
    pending,         \* number of refreshActivity calls awaiting their response
    issued,          \* number of tokens the backend has issued so far
    advances,        \* number of clock steps taken so far
    lastOp,          \* the operation of the program that ran last
    \* ---- the chat page (ElderlyChatPage) ----
    page,            \* which version of the chat page is in use: "fetch" or "hook"
    mounted,         \* the chat page is mounted
    messages,        \* useState<Message[]>
    inputText,       \* useState("")
    isLoading,       \* useState(false)
    isMicMuted,      \* useState(true)
    sessionId,       \* useState<string | null>
    error,           \* useState("")
    audioError,      \* useState("")
    isRecording,     \* useState(false)
    isProcessingAudio, \* useState(false)
    mediaRecorderRef,  \* useRef<MediaRecorder | null>: null or the index of a recorder
    recorders,       \* the MediaRecorder objects created so far, with their streams and closures
    acquiring,       \* getUserMedia calls awaiting their result (the closure each start captured)
    requests,        \* HTTP requests of the chat page awaiting their response
    activityTimeout, \* activityTimeoutRef: null or the id of the timer set last
    timers,          \* the timers set by the page that have neither fired nor been cleared
    audioChunksRef,  \* useRef<Blob[]>: the chunks pushed by ondataavailable
    turns,           \* number of sends and recordings the user has started
    processTextResponseLoading,  \* useProcessText loading flag
    processAudioResponseLoading, \* useProcessAudio loading flag
    \* ---- the login page (ElderlyLoginPage) ----
    loginMounted,    \* the login page is mounted
    showWelcomeCard, \* useState(false)
    step,            \* useState<"start" | "phone" | "face">("start")
    phoneNumber,     \* useState(""): the characters of the string
    elderlyDetails,  \* useState<ElderlyDetails | null>
    isCapturing,     \* useState(false)
    loginError,      \* the login page's useState("") named error
    loginIsLoading,  \* the login page's useState(false) named isLoading
    faceVerificationFailures, \* useState(0)
    streamRef,       \* useRef<MediaStream | null>: null or the index of a stream
    streams,         \* the camera streams acquired so far: TRUE while its tracks are live
    cameraPending,   \* startCamera calls scheduled or awaiting getUserMedia
    loginRequests    \* HTTP requests of the login page awaiting their response

sessionVars == <<now, token, elderlyData, lastActivity, tokenCreatedAt, logoutWarning,
                 storage, intervalDue, pending, issued, advances, lastOp>>

chatVars == <<page, mounted, messages, inputText, isLoading, isMicMuted, sessionId, error,
              audioError, isRecording, isProcessingAudio, mediaRecorderRef, recorders,
              acquiring, requests, activityTimeout, timers, audioChunksRef, turns,
              processTextResponseLoading, processAudioResponseLoading>>

loginVars == <<loginMounted, showWelcomeCard, step, phoneNumber, elderlyDetails, isCapturing,
               loginError, loginIsLoading, faceVerificationFailures, streamRef, streams,
               cameraPending, loginRequests>>

vars == <<sessionVars, chatVars, loginVars>>

session == <<token, elderlyData, lastActivity, tokenCreatedAt>>

----------------------------------------------------------------------------
(* Bounds of the model *)

MaxAdvances == 2
MaxTokens == 2
MaxPending == 1

(* Clock steps: 1 min, 14 min, 23 h, 24 h *)
Steps == {60000, 840000, 82800000, 86400000}

(* Lifetimes (in seconds) the backend may give to the exp claim of a token *)
TokenTtls == {900}

Profiles == {"u1", "u2"}

----------------------------------------------------------------------------
(* Optional values *)

Null == <<>>
Some(x) == <<x>>
Val(o) == o[1]

----------------------------------------------------------------------------
(* Program constants *)

WarnInactiveMinutes == 14
LogoutInactiveMinutes == 15
WarnTokenAgeHours == 23
LogoutTokenAgeHours == 24
CheckIntervalMs == 10000

InactivityWarning == "Logging-out in 1 minute due to inactivity"
TokenAgeWarning == "Logging-out in 1 minute"

Keys == {"elderlyToken", "elderlyData", "elderlyLastActivity", "elderlyTokenCreatedAt"}

----------------------------------------------------------------------------
(* Tokens.  A token is an opaque string; what the client can see of it is   *)
(* whether its payload decodes and whether the payload carries exp.         *)

Malformed(n) == [id |-> n, jwt |-> Null]
NoExp(n) == [id |-> n, jwt |-> Some([exp |-> Null])]
WithExp(n, e) == [id |-> n, jwt |-> Some([exp |-> Some(e)])]

(* The tokens the backend may issue as its n-th token at time t *)
FreshTokens(n, t) ==
    {Malformed(n), NoExp(n)} \cup {WithExp(n, (t \div 1000) + ttl) : ttl \in TokenTtls}

decodeJWT(tok) == tok.jwt

(* mutant: a token without an exp claim is taken to be valid for ever *)
isTokenExpiredOnlyByExp(tok, t) ==
    LET payload == decodeJWT(tok) IN
    IF payload = Null THEN TRUE
    ELSE IF Val(payload).exp = Null THEN FALSE
    ELSE Val(Val(payload).exp) < (t \div 1000)

isTokenExpired(tok, t) ==
    LET payload == decodeJWT(tok) IN
    IF payload = Null \/ Val(payload).exp = Null \/ Val(Val(payload).exp) = 0
    THEN TRUE
    ELSE Val(Val(payload).exp) < (t \div 1000)

----------------------------------------------------------------------------
(* Conversions used for persistence *)

JSONstringify(d) == [json |-> d]
JSONparse(s) == s.json
toISOString(d) == [iso |-> d]
NewDate(s) == s.iso

----------------------------------------------------------------------------
(* Lazy state initialisers of the provider *)

InitToken(s) == s["elderlyToken"]
InitElderlyData(s) ==
    IF s["elderlyData"] # Null THEN Some(JSONparse(Val(s["elderlyData"]))) ELSE Null
InitLastActivity(s) ==
    IF s["elderlyLastActivity"] # Null THEN Some(NewDate(Val(s["elderlyLastActivity"]))) ELSE Null
InitTokenCreatedAt(s) ==
    IF s["elderlyTokenCreatedAt"] # Null THEN Some(NewDate(Val(s["elderlyTokenCreatedAt"]))) ELSE Null

isAuthenticated == token # Null

(* The expiry effect: early return unless all three are set, else setInterval *)
ExpiryEffect(tok, la, tc, t) ==
    IF tok = Null \/ la = Null \/ tc = Null THEN Null ELSE Some(t + CheckIntervalMs)

EmptyStorage == [k \in Keys |-> Null]

(* State of the chat page as constructed by its useState / useRef calls *)
(* The state of the login page as its useState and useRef calls make it *)
LoginPageInit ==
    /\ showWelcomeCard = FALSE
    /\ step = "start"
    /\ phoneNumber = <<>>
    /\ elderlyDetails = Null
    /\ isCapturing = FALSE
    /\ loginError = ""
    /\ loginIsLoading = FALSE
    /\ faceVerificationFailures = 0
    /\ streamRef = Null
    /\ streams = <<>>
    /\ cameraPending = 0
    /\ loginRequests = {}

ChatPageInit ==
    /\ messages = <<>>
    /\ inputText = ""
    /\ isLoading = FALSE
    /\ isMicMuted = TRUE
    /\ sessionId = Null
    /\ error = ""
    /\ audioError = ""
    /\ isRecording = FALSE
    /\ isProcessingAudio = FALSE
    /\ mediaRecorderRef = Null
    /\ recorders = <<>>
    /\ acquiring = <<>>
    /\ requests = {}
    /\ activityTimeout = Null
    /\ timers = {}
    /\ audioChunksRef = <<>>
    /\ turns = 0
    /\ processTextResponseLoading = FALSE
    /\ processAudioResponseLoading = FALSE

Init ==
    /\ now = 0
    /\ storage = EmptyStorage
    /\ token = InitToken(EmptyStorage)
    /\ elderlyData = InitElderlyData(EmptyStorage)
    /\ lastActivity = InitLastActivity(EmptyStorage)
    /\ tokenCreatedAt = InitTokenCreatedAt(EmptyStorage)
    /\ logoutWarning = Null
    /\ intervalDue = Null
    /\ pending = 0
    /\ issued = 0
    /\ advances = 0
    /\ lastOp = "init"
    /\ page = "fetch"
    /\ mounted = FALSE
    /\ ChatPageInit
    /\ loginMounted = FALSE
    /\ LoginPageInit

----------------------------------------------------------------------------
(* checkExpiration *)

(* mutant: the difference is divided by 1000 only, so seconds are read as minutes *)
inactiveAtLeastSeconds(t, la, minutes) == (t - la) >= minutes * 1000

inactiveAtLeast(t, la, minutes) == (t - la) >= minutes * (1000 * 60)
tokenAgeAtLeast(t, tc, hours) == (t - tc) >= hours * (1000 * 60 * 60)

(* mutant: the token-age warning is tested before the inactivity warning *)
checkExpirationBranchAgeFirst(t, la, tc) ==
    IF (t - tc) >= WarnTokenAgeHours * 3600000 /\ (t - tc) < LogoutTokenAgeHours * 3600000
    THEN "warnTokenAge"
    ELSE IF (t - la) >= WarnInactiveMinutes * 60000 /\ (t - la) < LogoutInactiveMinutes * 60000
    THEN "warnInactivity"
    ELSE IF (t - la) >= LogoutInactiveMinutes * 60000
    THEN "logoutInactivity"
    ELSE IF (t - tc) >= LogoutTokenAgeHours * 3600000
    THEN "logoutTokenAge"
    ELSE "clear"

(* mutant: both forced logouts are tested before the warnings *)
checkExpirationBranchLogoutFirst(t, la, tc) ==
    IF (t - la) >= LogoutInactiveMinutes * 60000
    THEN "logoutInactivity"
    ELSE IF (t - tc) >= LogoutTokenAgeHours * 3600000
    THEN "logoutTokenAge"
    ELSE IF (t - la) >= WarnInactiveMinutes * 60000
    THEN "warnInactivity"
    ELSE IF (t - tc) >= WarnTokenAgeHours * 3600000
    THEN "warnTokenAge"
    ELSE "clear"

(* mutant: the inactivity warning has no upper limit, so it hides the logout *)
checkExpirationBranchWarnsForEver(t, la, tc) ==
    IF inactiveAtLeast(t, la, WarnInactiveMinutes)
    THEN "warnInactivity"
    ELSE IF tokenAgeAtLeast(t, tc, WarnTokenAgeHours) /\ ~tokenAgeAtLeast(t, tc, LogoutTokenAgeHours)
    THEN "warnTokenAge"
    ELSE IF tokenAgeAtLeast(t, tc, LogoutTokenAgeHours)
    THEN "logoutTokenAge"
    ELSE "clear"

(* Which branch of the if / else-if chain runs *)
checkExpirationBranch(t, la, tc) ==
    IF inactiveAtLeast(t, la, WarnInactiveMinutes) /\ ~inactiveAtLeast(t, la, LogoutInactiveMinutes)
    THEN "warnInactivity"
    ELSE IF tokenAgeAtLeast(t, tc, WarnTokenAgeHours) /\ ~tokenAgeAtLeast(t, tc, LogoutTokenAgeHours)
    THEN "warnTokenAge"
    ELSE IF inactiveAtLeast(t, la, LogoutInactiveMinutes)
    THEN "logoutInactivity"
    ELSE IF tokenAgeAtLeast(t, tc, LogoutTokenAgeHours)
    THEN "logoutTokenAge"
    ELSE "clear"

(* mutant: the commented-out removeItem("elderlyToken") is executed too *)
logoutStorageRemovesToken(s) == [k \in Keys |-> Null]

(* localStorage after logout(): the raw token is kept *)
logoutStorage(s) ==
    [s EXCEPT !["elderlyData"] = Null,
              !["elderlyLastActivity"] = Null,
              !["elderlyTokenCreatedAt"] = Null]

(* logout(): state setters and storage; the expiry effect re-runs if a dependency changed *)
DoLogout ==
    /\ token' = Null
    /\ elderlyData' = Null
    /\ lastActivity' = Null
    /\ tokenCreatedAt' = Null
    /\ logoutWarning' = Null
    /\ storage' = logoutStorage(storage)
    /\ intervalDue' = Null

Logout ==
    /\ DoLogout
    /\ lastOp' = "logout"
    /\ UNCHANGED <<chatVars, loginVars>>
    /\ UNCHANGED <<now, pending, issued, advances>>

(* One firing of the interval callback *)
CheckExpiration ==
    /\ intervalDue # Null
    /\ now >= Val(intervalDue)
    /\ LET branch == checkExpirationBranch(now, Val(lastActivity), Val(tokenCreatedAt)) IN
       CASE branch = "warnInactivity" ->
              /\ logoutWarning' = Some(InactivityWarning)
              /\ intervalDue' = Some(now + CheckIntervalMs)
              /\ UNCHANGED <<token, elderlyData, lastActivity, tokenCreatedAt, storage>>
         [] branch = "warnTokenAge" ->
              /\ logoutWarning' = Some(TokenAgeWarning)
              /\ intervalDue' = Some(now + CheckIntervalMs)
              /\ UNCHANGED <<token, elderlyData, lastActivity, tokenCreatedAt, storage>>
         [] branch \in {"logoutInactivity", "logoutTokenAge"} ->
              DoLogout
         [] OTHER ->
              /\ logoutWarning' = Null
              /\ intervalDue' = Some(now + CheckIntervalMs)
              /\ UNCHANGED <<token, elderlyData, lastActivity, tokenCreatedAt, storage>>
    /\ lastOp' = "checkExpiration"
    /\ UNCHANGED <<chatVars, loginVars>>
    /\ UNCHANGED <<now, pending, issued, advances>>

----------------------------------------------------------------------------
(* login *)

(* mutant: the token-issued timestamp is not persisted *)
loginStorageWithoutCreatedAt(s, newToken, data, t) ==
    [s EXCEPT !["elderlyToken"] = Some(newToken),
              !["elderlyData"] = Some(JSONstringify(data)),
              !["elderlyLastActivity"] = Some(toISOString(t))]

loginStorage(s, newToken, data, t) ==
    [s EXCEPT !["elderlyToken"] = Some(newToken),
              !["elderlyData"] = Some(JSONstringify(data)),
              !["elderlyLastActivity"] = Some(toISOString(t)),
              !["elderlyTokenCreatedAt"] = Some(toISOString(t))]

Login(newToken, data) ==
    /\ token' = Some(newToken)
    /\ elderlyData' = Some(data)
    /\ lastActivity' = Some(now)
    /\ tokenCreatedAt' = Some(now)
    /\ logoutWarning' = Null
    /\ storage' = loginStorage(storage, newToken, data, now)
    /\ intervalDue' = ExpiryEffect(token', lastActivity', tokenCreatedAt', now)

(* captureAndVerify succeeded: the backend issued a token *)
VerifiedLogin ==
    /\ issued < MaxTokens
    /\ \E newToken \in FreshTokens(issued + 1, now), data \in Profiles :
          Login(newToken, data)
    /\ issued' = issued + 1
    /\ lastOp' = "login"
    /\ UNCHANGED <<chatVars, loginVars>>
    /\ UNCHANGED <<now, pending, advances>>

----------------------------------------------------------------------------
(* refreshActivity *)

RefreshActivityCall ==
    /\ token # Null
    /\ pending < MaxPending
    /\ pending' = pending + 1
    /\ lastOp' = "refreshActivity"
    /\ UNCHANGED <<chatVars, loginVars>>
    /\ UNCHANGED <<now, token, elderlyData, lastActivity, tokenCreatedAt, logoutWarning,
                   storage, intervalDue, issued, advances>>

(* if (!token) return false *)
RefreshActivityNoToken ==
    /\ token = Null
    /\ lastOp' = "refreshNoToken"
    /\ UNCHANGED <<chatVars, loginVars>>
    /\ UNCHANGED <<now, token, elderlyData, lastActivity, tokenCreatedAt, logoutWarning,
                   storage, intervalDue, pending, issued, advances>>

(* mutant: the last-activity timestamp is set in memory but not persisted *)
refreshStorageTokenOnly(s, newToken, t) ==
    [s EXCEPT !["elderlyToken"] = Some(newToken)]

refreshStorage(s, newToken, t) ==
    [s EXCEPT !["elderlyToken"] = Some(newToken),
              !["elderlyLastActivity"] = Some(toISOString(t))]

(* mutant: the warning is not cleared on activity *)
RefreshApplyKeepsWarning(newToken) ==
    /\ token' = Some(newToken)
    /\ lastActivity' = Some(now)
    /\ logoutWarning' = logoutWarning
    /\ storage' = refreshStorage(storage, newToken, now)

(* the branch taken when the response has success and new_token *)
RefreshApply(newToken) ==
    /\ token' = Some(newToken)
    /\ lastActivity' = Some(now)
    /\ logoutWarning' = Null
    /\ storage' = refreshStorage(storage, newToken, now)

(* mutant: a successful refresh restarts the age of the token *)
RefreshActivitySuccessRestartsAge ==
    /\ issued < MaxTokens
    /\ pending > 0
    /\ pending' = pending - 1
    /\ \E newToken \in FreshTokens(issued + 1, now) : RefreshApply(newToken)
    /\ tokenCreatedAt' = IF tokenCreatedAt # Null THEN Some(now) ELSE Null
    /\ intervalDue' = ExpiryEffect(token', lastActivity', tokenCreatedAt', now)
    /\ issued' = issued + 1
    /\ lastOp' = "refreshSuccess"
    /\ UNCHANGED <<chatVars, loginVars>>
    /\ UNCHANGED <<now, elderlyData, advances>>

RefreshActivitySuccess ==
    /\ issued < MaxTokens
    /\ pending > 0
    /\ pending' = pending - 1
    /\ \E newToken \in FreshTokens(issued + 1, now) : RefreshApply(newToken)
    /\ intervalDue' = ExpiryEffect(token', lastActivity', tokenCreatedAt, now)
    /\ issued' = issued + 1
    /\ lastOp' = "refreshSuccess"
    /\ UNCHANGED <<chatVars, loginVars>>
    /\ UNCHANGED <<now, elderlyData, tokenCreatedAt, advances>>

(* mutant: a refresh that fails is taken for an expired session and logs out *)
RefreshActivityFailureLogsOut ==
    /\ pending > 0
    /\ pending' = pending - 1
    /\ DoLogout
    /\ lastOp' = "refreshFailure"
    /\ UNCHANGED <<chatVars, loginVars>>
    /\ UNCHANGED <<now, issued, advances>>

(* response without success / new_token, or fetch threw *)
RefreshActivityFailure ==
    /\ pending > 0
    /\ pending' = pending - 1
    /\ lastOp' = "refreshFailure"
    /\ UNCHANGED <<chatVars, loginVars>>
    /\ UNCHANGED <<now, token, elderlyData, lastActivity, tokenCreatedAt, logoutWarning,
                   storage, intervalDue, issued, advances>>

----------------------------------------------------------------------------
(* Page reload: the provider is constructed again from localStorage *)

Reload ==
    /\ token' = InitToken(storage)
    /\ elderlyData' = InitElderlyData(storage)
    /\ lastActivity' = InitLastActivity(storage)
    /\ tokenCreatedAt' = InitTokenCreatedAt(storage)
    /\ logoutWarning' = Null
    /\ intervalDue' = ExpiryEffect(token', lastActivity', tokenCreatedAt', now)
    /\ pending' = 0
    /\ lastOp' = "reload"
    /\ UNCHANGED <<chatVars, loginVars>>
    /\ UNCHANGED <<now, storage, issued, advances>>

(* Redirect effect of the login page *)
LoginPageRedirects ==
    isAuthenticated /\ token # Null /\ ~isTokenExpired(Val(token), now)

(* ElderlyProtectedRoute: the effect that would redirect only logs (its     *)
(* router.push is commented out), and the component returns its children   *)
(* whatever the session is                                                 *)
ProtectedRouteRedirects ==
    IF ~isAuthenticated \/ token = Null THEN FALSE ELSE FALSE

ProtectedRouteRendersChildren == TRUE

----------------------------------------------------------------------------
(* Passage of time *)

Advance ==
    /\ advances < MaxAdvances
    /\ \E d \in Steps : now' = now + d
    /\ advances' = advances + 1
    /\ UNCHANGED <<chatVars, loginVars>>
    /\ UNCHANGED <<token, elderlyData, lastActivity, tokenCreatedAt, logoutWarning,
                   storage, intervalDue, pending, issued, lastOp>>

----------------------------------------------------------------------------

Next ==
    \/ VerifiedLogin
    \/ Logout
    \/ CheckExpiration
    \/ RefreshActivityCall
    \/ RefreshActivityNoToken
    \/ RefreshActivitySuccess
    \/ RefreshActivityFailure
    \/ Reload
    \/ Advance

Spec == Init /\ [][Next]_vars

----------------------------------------------------------------------------
(* The chat page (ElderlyChatPage).  The file holds two versions of the    *)
(* page: the first calls the backend with fetch ("fetch"), the second goes *)
(* through the useProcessText / useProcessAudio hooks ("hook").  The page  *)
(* is shown to a logged-in elder, so the session variables hold the state  *)
(* a login leaves and stay as they are while the page is explored.         *)

MaxTurns == 2
MaxTicks == 5

TickMs == 500                        \* grain of the clock while the page is watched
DebounceMs == 1000                   \* delay of the activity timer
ChunkSizes == {0, 1}                 \* event.data.size of a delivered chunk

Pages == {"fetch", "hook"}
Texts == {"hi"}                      \* what the elder types
Transcript == "tr"                   \* text the backend hears in a recording
Reply == "re"                        \* the assistant's answer
Placeholder == "Voice message..."    \* optimistic bubble of a voice message
PlaceholderFallback == "Voice message"

MicrophoneError == "Failed to access microphone"
ProcessAudioError == "Failed to process audio"
SendError == "Failed to send message"
SendRetryError == "Failed to send message. Please try again."

Msg(role, content) == [role |-> role, content |-> content]

(* disabled / readOnly attributes of the controls *)
MicButtonDisabled == isLoading \/ isProcessingAudio
TextareaReadOnly == isRecording \/ isProcessingAudio
TextareaDisabled == isLoading
SendButtonDisabled == isLoading \/ inputText = "" \/ isProcessingAudio

(* the page opens a moment after the login that made the session *)
InitChat ==
    /\ now = TickMs
    /\ token = Some(WithExp(1, 900))
    /\ elderlyData = Some("u1")
    /\ lastActivity = Some(0)
    /\ tokenCreatedAt = Some(0)
    /\ logoutWarning = Null
    /\ storage = loginStorage(EmptyStorage, WithExp(1, 900), "u1", 0)
    /\ intervalDue = ExpiryEffect(token, lastActivity, tokenCreatedAt, 0)
    /\ pending = 0
    /\ issued = 1
    /\ advances = 0
    /\ lastOp = "login"
    /\ page \in Pages
    /\ mounted = TRUE
    /\ ChatPageInit
    /\ loginMounted = FALSE
    /\ LoginPageInit

(* mutant: the pending timer is not cleared before the new one is set *)
scheduleRefreshKeepingOld(ts, ref, t) == ts \cup {t + DebounceMs}

(* clearTimeout(activityTimeoutRef.current) and setTimeout(..., 1000); a    *)
(* timer is known by the instant at which it is due                         *)
scheduleRefresh(ts, ref, t) ==
    (IF ref # Null THEN ts \ {Val(ref)} ELSE ts) \cup {t + DebounceMs}

(* handleInputChange: the textarea accepts input unless disabled or readOnly *)
HandleInputChange ==
    /\ mounted
    /\ ~TextareaDisabled /\ ~TextareaReadOnly
    /\ \E v \in Texts \cup {""} : inputText' = v
    /\ timers' = scheduleRefresh(timers, activityTimeout, now)
    /\ activityTimeout' = Some(now + DebounceMs)
    /\ UNCHANGED <<page, mounted, messages, isLoading, isMicMuted, sessionId, error,
                   audioError, isRecording, isProcessingAudio, mediaRecorderRef,
                   audioChunksRef, recorders,
                   acquiring, requests, turns,
                   processTextResponseLoading, processAudioResponseLoading>>
    /\ UNCHANGED <<sessionVars, loginVars>>

HandleScroll ==
    /\ mounted
    /\ timers' = scheduleRefresh(timers, activityTimeout, now)
    /\ activityTimeout' = Some(now + DebounceMs)
    /\ UNCHANGED <<page, mounted, messages, inputText, isLoading, isMicMuted, sessionId,
                   error, audioError, isRecording, isProcessingAudio, mediaRecorderRef,
                   audioChunksRef,
                   recorders, acquiring, requests, turns,
                   processTextResponseLoading, processAudioResponseLoading>>
    /\ UNCHANGED <<sessionVars, loginVars>>

(* a timer is due and its callback calls refreshActivity(), which sends a   *)
(* refresh request when the context holds a token; nothing stops the timer  *)
(* when the page goes away                                                  *)
ActivityTimeoutFires ==
    /\ \E d \in timers :
          /\ now >= d
          /\ timers' = timers \ {d}
    /\ pending' = IF token # Null THEN pending + 1 ELSE pending
    /\ UNCHANGED <<page, mounted, messages, inputText, isLoading, isMicMuted, sessionId,
                   error, audioError, isRecording, isProcessingAudio, mediaRecorderRef,
                   audioChunksRef, recorders, acquiring, requests, activityTimeout, turns,
                   processTextResponseLoading, processAudioResponseLoading>>
    /\ UNCHANGED <<now, token, elderlyData, lastActivity, tokenCreatedAt, logoutWarning,
                   storage, intervalDue, issued, advances, lastOp>>
    /\ UNCHANGED loginVars

(* time passes while a timer is pending; a timer that is due fires before   *)
(* the clock moves on                                                       *)
Tick ==
    /\ timers # {}
    /\ \A d \in timers : now < d
    /\ now < MaxTicks * TickMs
    /\ now' = now + TickMs
    /\ UNCHANGED <<chatVars, loginVars>>
    /\ UNCHANGED <<token, elderlyData, lastActivity, tokenCreatedAt, logoutWarning,
                   storage, intervalDue, pending, issued, advances, lastOp>>

(* the page is left (handleLogout's router.push, or any navigation): React *)
(* runs the cleanups of its effects, none of which touches the timer, the  *)
(* recorders or the requests                                               *)
Teardown ==
    /\ mounted
    /\ mounted' = FALSE
    /\ UNCHANGED <<page, messages, inputText, isLoading, isMicMuted, sessionId, error,
                   audioError, isRecording, isProcessingAudio, mediaRecorderRef,
                   audioChunksRef, recorders,
                   acquiring, requests, activityTimeout, timers, turns,
                   processTextResponseLoading, processAudioResponseLoading>>
    /\ UNCHANGED <<sessionVars, loginVars>>

(* handleMicToggle while not recording: startRecording() up to its await.   *)
(* The closure of this render, with its sessionId, is what onstop will run. *)
StartRecording ==
    /\ mounted
    /\ ~MicButtonDisabled
    /\ ~isRecording
    /\ turns < MaxTurns
    /\ turns' = turns + 1
    /\ audioError' = ""
    /\ acquiring' = Append(acquiring, [n |-> turns + 1, sid |-> sessionId, tok |-> token])
    /\ UNCHANGED <<page, mounted, messages, inputText, isLoading, isMicMuted, sessionId,
                   error, isRecording, isProcessingAudio, mediaRecorderRef,
                   audioChunksRef, recorders,
                   requests, activityTimeout, timers,
                   processTextResponseLoading, processAudioResponseLoading>>
    /\ UNCHANGED <<sessionVars, loginVars>>

RemoveAt(q, i) == SubSeq(q, 1, i - 1) \o SubSeq(q, i + 1, Len(q))

(* getUserMedia resolved: a recorder is made on the stream and started *)
AcquireSuccess ==
    /\ \E i \in 1..Len(acquiring) :
          /\ recorders' = Append(recorders, [n |-> acquiring[i].n, sid |-> acquiring[i].sid,
                                              tok |-> acquiring[i].tok,
                                              state |-> "recording"])
          /\ acquiring' = RemoveAt(acquiring, i)
    /\ mediaRecorderRef' = Some(Len(recorders) + 1)
    /\ audioChunksRef' = <<>>
    /\ isRecording' = TRUE
    /\ isMicMuted' = FALSE
    /\ UNCHANGED <<page, mounted, messages, inputText, isLoading, sessionId, error,
                   audioError, isProcessingAudio, requests, activityTimeout, timers, turns,
                   processTextResponseLoading, processAudioResponseLoading>>
    /\ UNCHANGED <<sessionVars, loginVars>>

(* getUserMedia rejected: the catch of startRecording *)
AcquireFailure ==
    /\ \E i \in 1..Len(acquiring) : acquiring' = RemoveAt(acquiring, i)
    /\ audioError' = MicrophoneError
    /\ isMicMuted' = TRUE
    /\ UNCHANGED <<page, mounted, messages, inputText, isLoading, sessionId, error,
                   isRecording, isProcessingAudio, mediaRecorderRef, audioChunksRef, recorders, requests,
                   activityTimeout, timers, turns,
                   processTextResponseLoading, processAudioResponseLoading>>
    /\ UNCHANGED <<sessionVars, loginVars>>

(* handleMicToggle while recording: stopRecording() stops the recorder the  *)
(* ref points at; its stop event is delivered later                         *)
StopRecording ==
    /\ mounted
    /\ ~MicButtonDisabled
    /\ isRecording
    /\ mediaRecorderRef # Null
    /\ recorders[Val(mediaRecorderRef)].state = "recording"
    /\ recorders' = [recorders EXCEPT ![Val(mediaRecorderRef)].state = "stopping"]
    /\ isRecording' = FALSE
    /\ isMicMuted' = TRUE
    /\ UNCHANGED <<page, mounted, messages, inputText, isLoading, sessionId, error,
                   audioError, isProcessingAudio, mediaRecorderRef, audioChunksRef, acquiring, requests,
                   activityTimeout, timers, turns,
                   processTextResponseLoading, processAudioResponseLoading>>
    /\ UNCHANGED <<sessionVars, loginVars>>


(* A request of turn n, issued by a closure whose sessionId was sid and     *)
(* whose token was tok: the body carries that sid, the Authorization header *)
(* that tok.  voice tells the recording pipeline's requests from the typed  *)
(* ones; audio is the Blob of an upload.                                    *)
Request(n, kind, sid, tok, voice, audio) ==
    [n |-> n, kind |-> kind, sid |-> sid, tok |-> tok, voice |-> voice, audio |-> audio]

(* the hooks call postApi(url, payload): the session token of the page is  *)
(* not among the arguments, so none is recorded for their requests         *)
hookToken == Null

(* ondataavailable: a chunk is pushed unless it is empty; a chunk is known  *)
(* by the recording it belongs to                                           *)
pushChunk(chunks, n, size) == IF size > 0 THEN Append(chunks, n) ELSE chunks

(* chatResult.sessionId: the conversation the backend filed the call under, *)
(* the one named in the request or else a new one                           *)
BackendSession(r) == IF r.sid # Null THEN r.sid ELSE Some(r.n)

RecorderOf(n) == CHOOSE i \in 1..Len(recorders) : recorders[i].n = n

(* the stop event of a recorder: onstop starts sendAudioForTranscription    *)
(* of the render that created the recorder (first version of the page)      *)
OnStop ==
    /\ page = "fetch"
    /\ \E i \in 1..Len(recorders) :
          /\ recorders[i].state = "stopping"
          /\ recorders' = [recorders EXCEPT ![i].state = "uploading"]
          /\ \E size \in ChunkSizes :
                audioChunksRef' = pushChunk(audioChunksRef, recorders[i].n, size)
          /\ requests' = requests \cup
                {Request(recorders[i].n, "speech_to_text", recorders[i].sid,
                         recorders[i].tok, TRUE,
                         audioChunksRef')}
    /\ isProcessingAudio' = TRUE
    /\ audioError' = ""
    /\ UNCHANGED <<page, mounted, messages, inputText, isLoading, isMicMuted, sessionId,
                   error, isRecording, mediaRecorderRef, acquiring, activityTimeout, timers, turns,
                   processTextResponseLoading, processAudioResponseLoading>>
    /\ UNCHANGED <<sessionVars, loginVars>>

(* /speech_to_text answered with success and text: the transcript is shown  *)
(* and sent to /chat/elderly with the closure's sessionId                   *)
TranscriptionSuccess ==
    /\ \E r \in requests :
          /\ r.kind = "speech_to_text"
          /\ requests' = (requests \ {r}) \cup {Request(r.n, "chat", r.sid, r.tok, TRUE, <<>>)}
    /\ messages' = Append(messages, Msg("user", Transcript))
    /\ isLoading' = TRUE
    /\ UNCHANGED <<page, mounted, inputText, isMicMuted, sessionId, error, audioError,
                   isRecording, isProcessingAudio, mediaRecorderRef, audioChunksRef, recorders, acquiring,
                   activityTimeout, timers, turns,
                   processTextResponseLoading, processAudioResponseLoading>>
    /\ UNCHANGED <<sessionVars, loginVars>>

(* /speech_to_text threw or answered without success or text; the finally   *)
(* runs and onstop stops the tracks of the stream                           *)
TranscriptionFailure ==
    /\ \E r \in requests :
          /\ r.kind = "speech_to_text"
          /\ requests' = requests \ {r}
          /\ recorders' = [recorders EXCEPT ![RecorderOf(r.n)].state = "inactive"]
    /\ audioError' = ProcessAudioError
    /\ isProcessingAudio' = FALSE
    /\ UNCHANGED <<page, mounted, messages, inputText, isLoading, isMicMuted, sessionId,
                   error, isRecording, mediaRecorderRef, audioChunksRef, acquiring, activityTimeout, timers, turns,
                   processTextResponseLoading, processAudioResponseLoading>>
    /\ UNCHANGED <<sessionVars, loginVars>>

(* the chat call of a recording answered with success and a response *)
VoiceChatSuccess ==
    /\ \E r \in requests :
          /\ r.kind = "chat" /\ r.voice
          /\ requests' = requests \ {r}
          /\ recorders' = [recorders EXCEPT ![RecorderOf(r.n)].state = "inactive"]
          /\ sessionId' = IF r.sid = Null THEN BackendSession(r) ELSE sessionId
    /\ messages' = Append(messages, Msg("assistant", Reply))
    /\ isLoading' = FALSE
    /\ isProcessingAudio' = FALSE
    /\ UNCHANGED <<page, mounted, inputText, isMicMuted, error, audioError, isRecording,
                   mediaRecorderRef, audioChunksRef, acquiring, activityTimeout, timers, turns,
                   processTextResponseLoading, processAudioResponseLoading>>
    /\ UNCHANGED <<sessionVars, loginVars>>

(* the chat call of a recording answered without success, or threw *)
VoiceChatFailure ==
    /\ \E r \in requests :
          /\ r.kind = "chat" /\ r.voice
          /\ requests' = requests \ {r}
          /\ recorders' = [recorders EXCEPT ![RecorderOf(r.n)].state = "inactive"]
    /\ error' \in {SendError, SendRetryError}
    /\ isLoading' = FALSE
    /\ isProcessingAudio' = FALSE
    /\ UNCHANGED <<page, mounted, messages, inputText, isMicMuted, sessionId, audioError,
                   isRecording, mediaRecorderRef, audioChunksRef, acquiring, activityTimeout, timers, turns,
                   processTextResponseLoading, processAudioResponseLoading>>
    /\ UNCHANGED <<sessionVars, loginVars>>

(* handleSendMessage up to its await (form submit or Enter) *)
HandleSendMessage ==
    /\ page = "fetch"
    /\ mounted
    /\ ~(inputText = "" \/ isLoading \/ token = Null \/ elderlyData = Null
           \/ isProcessingAudio)
    /\ turns < MaxTurns
    /\ turns' = turns + 1
    /\ inputText' = ""
    /\ isLoading' = TRUE
    /\ error' = ""
    /\ audioError' = ""
    /\ messages' = Append(messages, Msg("user", inputText))
    /\ requests' = requests \cup {Request(turns + 1, "chat", sessionId, token, FALSE, <<>>)}
    /\ UNCHANGED <<page, mounted, isMicMuted, sessionId, isRecording, isProcessingAudio,
                   mediaRecorderRef, audioChunksRef, recorders, acquiring, activityTimeout, timers,
                   processTextResponseLoading, processAudioResponseLoading>>
    /\ UNCHANGED <<sessionVars, loginVars>>

(* the typed chat call answered with success and a response *)
SendMessageSuccess ==
    /\ \E r \in requests :
          /\ r.kind = "chat" /\ ~r.voice
          /\ requests' = requests \ {r}
          /\ sessionId' = IF r.sid = Null THEN BackendSession(r) ELSE sessionId
    /\ messages' = Append(messages, Msg("assistant", Reply))
    /\ isLoading' = FALSE
    /\ UNCHANGED <<page, mounted, inputText, isMicMuted, error, audioError, isRecording,
                   isProcessingAudio, mediaRecorderRef, audioChunksRef, recorders, acquiring,
                   activityTimeout, timers, turns,
                   processTextResponseLoading, processAudioResponseLoading>>
    /\ UNCHANGED <<sessionVars, loginVars>>

(* the typed chat call answered without success, or threw *)
SendMessageFailure ==
    /\ \E r \in requests :
          /\ r.kind = "chat" /\ ~r.voice
          /\ requests' = requests \ {r}
    /\ error' \in {SendError, SendRetryError}
    /\ isLoading' = FALSE
    /\ UNCHANGED <<page, mounted, messages, inputText, isMicMuted, sessionId, audioError,
                   isRecording, isProcessingAudio, mediaRecorderRef, audioChunksRef, recorders, acquiring,
                   activityTimeout, timers, turns,
                   processTextResponseLoading, processAudioResponseLoading>>
    /\ UNCHANGED <<sessionVars, loginVars>>

(* ---- second version of the page: useProcessText / useProcessAudio ---- *)

(* what postApi may resolve to: every field of the response is optional *)
ProcessTextResponses == {[response |-> Some(Reply)], [response |-> Null]}
ProcessAudioResponses ==
    {[transcript |-> Some(Transcript), response |-> Some(Reply)],
     [transcript |-> Null, response |-> Null]}

PlaceholderIndexes(ms) ==
    {i \in 1..Len(ms) : ms[i].role = "user" /\ ms[i].content = Placeholder}

(* mutant: the loop stops at the last user message, whatever its content *)
ReplaceLastUserMessage(ms, c) ==
    LET users == {i \in 1..Len(ms) : ms[i].role = "user"}
    IN IF users = {} THEN ms
       ELSE LET last == CHOOSE i \in users : \A j \in users : j <= i
            IN [ms EXCEPT ![last].content = c]

(* the loop that replaces the last user placeholder *)
ReplaceLastPlaceholder(ms, c) ==
    IF PlaceholderIndexes(ms) = {} THEN ms
    ELSE LET last == CHOOSE i \in PlaceholderIndexes(ms) :
                        \A j \in PlaceholderIndexes(ms) : j <= i
         IN [ms EXCEPT ![last].content = c]

AppendReply(ms, resp) ==
    IF resp.response # Null THEN Append(ms, Msg("assistant", Val(resp.response))) ELSE ms

(* the two setMessages calls of the processAudioResponse effect *)
ProcessAudioMessages(ms, resp) ==
    AppendReply(
        AppendReply(
            ReplaceLastPlaceholder(ms, IF resp.transcript # Null THEN Val(resp.transcript)
                                       ELSE PlaceholderFallback),
            resp),
        resp)

(* the stop event of a recorder: onstop shows the placeholder and starts    *)
(* sendAudioForTranscription, which calls createProcessAudio                *)
OnStopOptimistic ==
    /\ page = "hook"
    /\ \E i \in 1..Len(recorders) :
          /\ recorders[i].state = "stopping"
          /\ recorders' = [recorders EXCEPT ![i].state = "uploading"]
          /\ \E size \in ChunkSizes :
                audioChunksRef' = pushChunk(audioChunksRef, recorders[i].n, size)
          /\ requests' = requests \cup
                {Request(recorders[i].n, "process_audio", recorders[i].sid,
                         hookToken, TRUE,
                         audioChunksRef')}
    /\ messages' = Append(messages, Msg("user", Placeholder))
    /\ isProcessingAudio' = TRUE
    /\ audioError' = ""
    /\ error' = ""
    /\ processAudioResponseLoading' = TRUE
    /\ UNCHANGED <<page, mounted, inputText, isLoading, isMicMuted, sessionId, isRecording,
                   mediaRecorderRef, acquiring, activityTimeout, timers, turns,
                   processTextResponseLoading>>
    /\ UNCHANGED <<sessionVars, loginVars>>

(* postApi resolved in createProcessAudio: the response is stored and the   *)
(* processAudioResponse effect runs; onstop then stops the tracks           *)
ProcessAudioResolve ==
    /\ \E r \in requests :
          /\ r.kind = "process_audio"
          /\ requests' = requests \ {r}
          /\ recorders' = [recorders EXCEPT ![RecorderOf(r.n)].state = "inactive"]
    /\ \E resp \in ProcessAudioResponses : messages' = ProcessAudioMessages(messages, resp)
    /\ processAudioResponseLoading' = FALSE
    /\ isProcessingAudio' = FALSE
    /\ UNCHANGED <<page, mounted, inputText, isLoading, isMicMuted, sessionId, error,
                   audioError, isRecording, mediaRecorderRef, audioChunksRef, acquiring, activityTimeout, timers,
                   turns, processTextResponseLoading>>
    /\ UNCHANGED <<sessionVars, loginVars>>

(* postApi threw in createProcessAudio: the catch logs, the finally clears  *)
(* the hook's loading flag, nothing is stored, so no effect runs            *)
ProcessAudioReject ==
    /\ \E r \in requests :
          /\ r.kind = "process_audio"
          /\ requests' = requests \ {r}
          /\ recorders' = [recorders EXCEPT ![RecorderOf(r.n)].state = "inactive"]
    /\ processAudioResponseLoading' = FALSE
    /\ UNCHANGED <<page, mounted, messages, inputText, isLoading, isMicMuted, sessionId,
                   error, audioError, isRecording, isProcessingAudio, mediaRecorderRef,
                   audioChunksRef,
                   acquiring, activityTimeout, timers, turns, processTextResponseLoading>>
    /\ UNCHANGED <<sessionVars, loginVars>>

(* handleSend: the send button, or Enter in the textarea *)
HandleSend ==
    /\ page = "hook"
    /\ mounted
    /\ ~SendButtonDisabled \/ ~TextareaDisabled
    /\ ~(inputText = "" \/ processTextResponseLoading)
    /\ turns < MaxTurns
    /\ turns' = turns + 1
    /\ inputText' = ""
    /\ isLoading' = TRUE
    /\ messages' = Append(messages, Msg("user", inputText))
    /\ processTextResponseLoading' = TRUE
    /\ requests' = requests \cup {Request(turns + 1, "process_text", Null, hookToken, FALSE, <<>>)}
    /\ UNCHANGED <<page, mounted, isMicMuted, sessionId, error, audioError, isRecording,
                   isProcessingAudio, mediaRecorderRef, audioChunksRef, recorders, acquiring,
                   activityTimeout, timers, processAudioResponseLoading>>
    /\ UNCHANGED <<sessionVars, loginVars>>

(* postApi resolved in createProcessText: the processTextResponse effect *)
ProcessTextResolve ==
    /\ \E r \in requests :
          /\ r.kind = "process_text"
          /\ requests' = requests \ {r}
    /\ \E resp \in ProcessTextResponses : messages' = AppendReply(messages, resp)
    /\ processTextResponseLoading' = FALSE
    /\ isLoading' = FALSE
    /\ UNCHANGED <<page, mounted, inputText, isMicMuted, sessionId, error, audioError,
                   isRecording, isProcessingAudio, mediaRecorderRef, audioChunksRef, recorders, acquiring,
                   activityTimeout, timers, turns, processAudioResponseLoading>>
    /\ UNCHANGED <<sessionVars, loginVars>>

(* postApi threw in createProcessText: logged only *)
ProcessTextReject ==
    /\ \E r \in requests :
          /\ r.kind = "process_text"
          /\ requests' = requests \ {r}
    /\ processTextResponseLoading' = FALSE
    /\ UNCHANGED <<page, mounted, messages, inputText, isLoading, isMicMuted, sessionId,
                   error, audioError, isRecording, isProcessingAudio, mediaRecorderRef,
                   audioChunksRef,
                   recorders, acquiring, activityTimeout, timers, turns,
                   processAudioResponseLoading>>
    /\ UNCHANGED <<sessionVars, loginVars>>

NextChat ==
    \/ HandleInputChange
    \/ HandleScroll
    \/ Teardown
    \/ StartRecording
    \/ AcquireSuccess
    \/ AcquireFailure
    \/ StopRecording
    \/ OnStop
    \/ TranscriptionSuccess
    \/ TranscriptionFailure
    \/ VoiceChatSuccess
    \/ VoiceChatFailure
    \/ HandleSendMessage
    \/ SendMessageSuccess
    \/ SendMessageFailure
    \/ OnStopOptimistic
    \/ ProcessAudioResolve
    \/ ProcessAudioReject
    \/ HandleSend
    \/ ProcessTextResolve
    \/ ProcessTextReject

(* The conversation is explored at one instant: the activity timer is set   *)
(* but its second does not pass.                                            *)
SpecChat == InitChat /\ [][NextChat]_vars

(* The activity timer is explored with the clock running, the conversation  *)
(* left aside.                                                              *)
NextDebounce ==
    \/ HandleInputChange
    \/ HandleScroll
    \/ ActivityTimeoutFires
    \/ Tick
    \/ Teardown

SpecDebounce == InitChat /\ [][NextDebounce]_vars

----------------------------------------------------------------------------
(* The expiry timer on a session that is left alone: the clock runs, the   *)
(* interval fires, and refreshActivity calls are made but none succeeds    *)

(* handleLogout: logout(), then router.push("/") leaves the page *)
HandleLogout ==
    /\ mounted
    /\ token # Null
    /\ DoLogout
    /\ lastOp' = "logout"
    /\ mounted' = FALSE
    /\ UNCHANGED <<page, messages, inputText, isLoading, isMicMuted, sessionId, error,
                   audioError, isRecording, isProcessingAudio, mediaRecorderRef,
                   audioChunksRef, recorders,
                   acquiring, requests, activityTimeout, timers, turns,
                   processTextResponseLoading, processAudioResponseLoading>>
    /\ UNCHANGED <<now, pending, issued, advances>>
    /\ UNCHANGED loginVars

(* The fetch-based page with the session it runs in: refreshActivity (of    *)
(* the activity timer, or of a reply that carries a token) and the Logout   *)
(* button act while recordings and requests are under way.                  *)
InitChatSession == InitChat /\ page = "fetch"

NextChatSession ==
    \/ HandleInputChange
    \/ StartRecording
    \/ AcquireSuccess
    \/ StopRecording
    \/ OnStop
    \/ TranscriptionSuccess
    \/ VoiceChatSuccess
    \/ HandleSendMessage
    \/ SendMessageSuccess
    \/ RefreshActivityCall
    \/ RefreshActivitySuccess
    \/ HandleLogout

SpecChatSession == InitChatSession /\ [][NextChatSession]_vars


MaxExpiryTicks == 70
ExpiryTickMs == 60000

(* Token age and inactivity of the session when the run starts, in minutes *)
StartAgeMinutes == {0, 20, 1379, 1380, 1410, 1439, 1440}
StartInactiveMinutes == {0, 13, 14, 15, 20}

InitExpiry ==
    /\ \E a \in StartAgeMinutes, i \in StartInactiveMinutes :
          /\ i <= a
          /\ now = a * 60000
          /\ lastActivity = Some((a - i) * 60000)
    /\ tokenCreatedAt = Some(0)
    /\ token = Some(WithExp(1, 900))
    /\ elderlyData = Some("u1")
    /\ storage = refreshStorage(loginStorage(EmptyStorage, WithExp(1, 900), "u1", 0),
                                 WithExp(1, 900), Val(lastActivity))
    /\ logoutWarning = Null
    /\ intervalDue = ExpiryEffect(token, lastActivity, tokenCreatedAt, now)
    /\ pending = 0
    /\ issued = 1
    /\ advances = 0
    /\ lastOp = "reload"
    /\ page = "fetch"
    /\ mounted = FALSE
    /\ ChatPageInit
    /\ loginMounted = FALSE
    /\ LoginPageInit

(* a minute passes while the session lasts *)
ExpiryTick ==
    /\ token # Null
    /\ advances < MaxExpiryTicks
    /\ now' = now + ExpiryTickMs
    /\ advances' = advances + 1
    /\ UNCHANGED <<chatVars, loginVars>>
    /\ UNCHANGED <<token, elderlyData, lastActivity, tokenCreatedAt, logoutWarning,
                   storage, intervalDue, pending, issued, lastOp>>

NextExpiry ==
    \/ ExpiryTick
    \/ CheckExpiration
    \/ RefreshActivityCall
    \/ RefreshActivityFailure

(* setInterval keeps firing and the clock keeps running *)
SpecExpiry ==
    InitExpiry /\ [][NextExpiry]_vars /\ WF_vars(CheckExpiration) /\ WF_vars(ExpiryTick)

----------------------------------------------------------------------------
(* The login page (ElderlyLoginPage) *)

MaxFailures == 6
MaxCameras == 2

FailuresForEnterNumber == 5

DetailsEmptyError == "Failed to load elderly details. Please try with phone number."
DetailsFetchError == "Failed to load details. Please try with phone number."
(* mutant: the camera failure is reported with the text of a failed request *)
CameraErrorAsRequestError == "Failed to verify face. Please try again."

CameraError == "Failed to access camera. Please allow camera permissions."
VerifyRejectedError == "Face verification failed"
VerifyFailedError == "Failed to verify face. Please try again."

(* result.message of a /verify_elderly_face answer that is not a success *)
Messages == {"", "Face does not match"}

(* what may be typed into the phone field *)
PhoneInputs == {<<"9", "8">>, <<"9", "a", "8">>}
Digits == {"0", "1", "2", "3", "4", "5", "6", "7", "8", "9"}
IsDigit(c) == c \in Digits

(* value.replace(/\D/g, "").slice(0, 10) *)
digitsOnly(value) ==
    LET d == SelectSeq(value, IsDigit) IN
    IF Len(d) > 10 THEN SubSeq(d, 1, 10) ELSE d

(* A token whose payload carries the elderly_userid claim *)
ForUser(n, e, uid) == [id |-> n, jwt |-> Some([exp |-> Some(e), elderly_userid |-> uid])]

(* payload.elderly_userid, undefined when the payload has no such claim *)
elderly_userid(payload) ==
    IF "elderly_userid" \in DOMAIN payload THEN Some(payload.elderly_userid) ELSE Null

(* The tokens /verify_elderly_face may return as its n-th token at time t *)
VerifyTokens(n, t, uid) ==
    FreshTokens(n, t) \cup {ForUser(n, (t \div 1000) + ttl, uid) : ttl \in TokenTtls}

(* What localStorage may hold under elderlyToken when the page is opened: *)
(* nothing, or the raw token a logout has left behind                     *)
StoredTokens == {Null, Some(ForUser(1, 900, "u1")), Some(NoExp(1)), Some(Malformed(1))}

Details(uid) == [userid |-> uid]

(* the ElderlyData that captureAndVerify hands to login() *)
loginData(details) == details.userid

LoginRequest(kind, uid) == [kind |-> kind, uid |-> uid]

(* mutant: the tracks are left running *)
stopTracksNever(ss, ref) == ss

(* streamRef.current.getTracks().forEach(track => track.stop()) *)
stopTracks(ss, ref) ==
    IF ref # Null THEN [ss EXCEPT ![Val(ref)] = FALSE] ELSE ss

(* When the login page is opened: after the stored token has run out, so   *)
(* that the redirect effect leaves the page in place                       *)
LoginOpenedAt == 1000000

(* The login page is opened with no session timestamps; the provider's     *)
(* token is null when the page was reached by a logout, and the stored raw *)
(* token when the page was loaded afresh (lazy initialiser of token)       *)
InitLogin ==
    /\ now = LoginOpenedAt
    /\ \E st \in StoredTokens :
          /\ storage = [EmptyStorage EXCEPT !["elderlyToken"] = st]
          /\ issued = IF st = Null THEN 0 ELSE 1
          /\ token \in {Null, InitToken(storage)}
    /\ elderlyData = Null
    /\ lastActivity = Null
    /\ tokenCreatedAt = Null
    /\ logoutWarning = Null
    /\ intervalDue = Null
    /\ pending = 0
    /\ advances = 0
    /\ lastOp = "init"
    /\ page = "fetch"
    /\ mounted = FALSE
    /\ ChatPageInit
    /\ loginMounted = TRUE
    /\ LoginPageInit

(* The JOIN buttons: disabled={isLoading} *)
StartButtonDisabled == loginIsLoading

(* handleStart, up to its fetch *)
HandleStart ==
    /\ loginMounted
    /\ step = "start"
    /\ ~StartButtonDisabled
    /\ loginError' = ""
    /\ showWelcomeCard' = TRUE
    /\ LET storedToken == storage["elderlyToken"]
           payload == IF storedToken # Null THEN decodeJWT(Val(storedToken)) ELSE Null
       IN
       IF payload # Null /\ elderly_userid(Val(payload)) # Null
       THEN /\ Len(streams) + cameraPending < MaxCameras
            /\ loginIsLoading' = TRUE
            /\ loginRequests' = loginRequests \cup
                   {LoginRequest("getelderlydetails", Val(elderly_userid(Val(payload))))}
            /\ UNCHANGED step
       ELSE /\ step' = "phone"
            /\ UNCHANGED <<loginIsLoading, loginRequests>>
    /\ UNCHANGED <<loginMounted, phoneNumber, elderlyDetails, isCapturing,
                   faceVerificationFailures, streamRef, streams, cameraPending>>
    /\ UNCHANGED <<sessionVars, chatVars>>

(* /getelderlydetails answered with a body: the face step, and startCamera *)
(* in 300 ms                                                               *)
DetailsSuccess ==
    /\ \E r \in loginRequests, uid \in Profiles :
          /\ r.kind = "getelderlydetails"
          /\ loginRequests' = loginRequests \ {r}
          /\ elderlyDetails' = Some(Details(uid))
    /\ faceVerificationFailures' = 0
    /\ step' = "face"
    /\ cameraPending' = cameraPending + 1
    /\ loginIsLoading' = FALSE
    /\ UNCHANGED <<loginMounted, showWelcomeCard, phoneNumber, isCapturing, loginError,
                   streamRef, streams>>
    /\ UNCHANGED <<sessionVars, chatVars>>

(* /getelderlydetails answered without a body *)
DetailsEmpty ==
    /\ \E r \in loginRequests :
          /\ r.kind = "getelderlydetails"
          /\ loginRequests' = loginRequests \ {r}
    /\ loginError' = DetailsEmptyError
    /\ step' = "phone"
    /\ loginIsLoading' = FALSE
    /\ UNCHANGED <<loginMounted, showWelcomeCard, phoneNumber, elderlyDetails, isCapturing,
                   faceVerificationFailures, streamRef, streams, cameraPending>>
    /\ UNCHANGED <<sessionVars, chatVars>>

(* the fetch of /getelderlydetails threw *)
DetailsFailure ==
    /\ \E r \in loginRequests :
          /\ r.kind = "getelderlydetails"
          /\ loginRequests' = loginRequests \ {r}
    /\ loginError' = DetailsFetchError
    /\ step' = "phone"
    /\ loginIsLoading' = FALSE
    /\ UNCHANGED <<loginMounted, showWelcomeCard, phoneNumber, elderlyDetails, isCapturing,
                   faceVerificationFailures, streamRef, streams, cameraPending>>
    /\ UNCHANGED <<sessionVars, chatVars>>

(* the phone field and the Continue button: disabled={isLoading} *)
PhoneFormDisabled == loginIsLoading

(* onChange of the phone field *)
HandlePhoneChange ==
    /\ loginMounted
    /\ step = "phone"
    /\ ~PhoneFormDisabled
    /\ \E value \in PhoneInputs : phoneNumber' = digitsOnly(value)
    /\ UNCHANGED <<loginMounted, showWelcomeCard, step, elderlyDetails, isCapturing,
                   loginError, loginIsLoading, faceVerificationFailures, streamRef, streams,
                   cameraPending, loginRequests>>
    /\ UNCHANGED <<sessionVars, chatVars>>

(* handlePhoneSubmit: the field is required, so an empty form is not       *)
(* submitted; the lookup that followed the four setters is commented out   *)
HandlePhoneSubmit ==
    /\ loginMounted
    /\ step = "phone"
    /\ ~PhoneFormDisabled
    /\ phoneNumber # <<>>
    /\ loginError' = ""
    /\ loginIsLoading' = TRUE
    /\ faceVerificationFailures' = 0
    /\ step' = "face"
    /\ UNCHANGED <<loginMounted, showWelcomeCard, phoneNumber, elderlyDetails, isCapturing,
                   streamRef, streams, cameraPending, loginRequests>>
    /\ UNCHANGED <<sessionVars, chatVars>>

(* startCamera: getUserMedia resolved.  The stream goes into streamRef     *)
(* whatever the step is by now; setIsCapturing acts only while mounted     *)
StartCameraSuccess ==
    /\ cameraPending > 0
    /\ cameraPending' = cameraPending - 1
    /\ streams' = Append(streams, TRUE)
    /\ streamRef' = Some(Len(streams) + 1)
    /\ isCapturing' = IF loginMounted THEN TRUE ELSE isCapturing
    /\ UNCHANGED <<loginMounted, showWelcomeCard, step, phoneNumber, elderlyDetails,
                   loginError, loginIsLoading, faceVerificationFailures, loginRequests>>
    /\ UNCHANGED <<sessionVars, chatVars>>

(* startCamera: getUserMedia rejected (permission denied, no camera) *)
StartCameraFailure ==
    /\ cameraPending > 0
    /\ cameraPending' = cameraPending - 1
    /\ loginError' = IF loginMounted THEN CameraError ELSE loginError
    /\ UNCHANGED <<loginMounted, showWelcomeCard, step, phoneNumber, elderlyDetails,
                   isCapturing, loginIsLoading, faceVerificationFailures, streamRef,
                   streams, loginRequests>>
    /\ UNCHANGED <<sessionVars, chatVars>>

(* The Verify Face button: disabled={isLoading || !isCapturing} *)
VerifyButtonDisabled == loginIsLoading \/ ~isCapturing

(* mutant: Back gives way to Enter Number one failure later *)
LeftButtonAfterSix ==
    IF faceVerificationFailures >= FailuresForEnterNumber + 1 THEN "Enter Number" ELSE "Back"

(* The left button of the face step: its label, and with it its handler *)
LeftButton ==
    IF faceVerificationFailures >= FailuresForEnterNumber THEN "Enter Number" ELSE "Back"

LeftButtonDisabled == loginIsLoading

(* captureAndVerify, up to its fetch *)
CaptureAndVerify ==
    /\ loginMounted
    /\ step = "face"
    /\ ~VerifyButtonDisabled
    /\ faceVerificationFailures < MaxFailures
    /\ IF elderlyDetails = Null
       THEN UNCHANGED <<loginIsLoading, loginError, loginRequests>>
       ELSE /\ loginIsLoading' = TRUE
            /\ loginError' = ""
            /\ loginRequests' = loginRequests \cup
                   {LoginRequest("verify_elderly_face", Val(elderlyDetails).userid)}
    /\ UNCHANGED <<loginMounted, showWelcomeCard, step, phoneNumber, elderlyDetails,
                   isCapturing, faceVerificationFailures, streamRef, streams, cameraPending>>
    /\ UNCHANGED <<sessionVars, chatVars>>

(* /verify_elderly_face answered success with a token: the camera is       *)
(* stopped, login() is called with the details the request was made for,   *)
(* and router.push("/chat") leaves the page                                *)
VerifySuccess ==
    /\ issued < MaxTokens
    /\ \E r \in loginRequests :
          /\ r.kind = "verify_elderly_face"
          /\ loginRequests' = loginRequests \ {r}
          /\ \E newToken \in VerifyTokens(issued + 1, now, r.uid) :
                Login(newToken, loginData(Details(r.uid)))
    /\ faceVerificationFailures' = 0
    /\ streams' = stopTracks(streams, streamRef)
    /\ loginIsLoading' = FALSE
    /\ loginMounted' = FALSE
    /\ issued' = issued + 1
    /\ lastOp' = "login"
    /\ UNCHANGED <<showWelcomeCard, step, phoneNumber, elderlyDetails, isCapturing,
                   loginError, streamRef, cameraPending>>
    /\ UNCHANGED <<now, pending, advances>>
    /\ UNCHANGED chatVars

(* /verify_elderly_face answered without success or without a token *)
VerifyRejected ==
    /\ \E r \in loginRequests, message \in Messages :
          /\ r.kind = "verify_elderly_face"
          /\ loginRequests' = loginRequests \ {r}
          /\ loginError' = IF message # "" THEN message ELSE VerifyRejectedError
    /\ faceVerificationFailures' = faceVerificationFailures + 1
    /\ loginIsLoading' = FALSE
    /\ UNCHANGED <<loginMounted, showWelcomeCard, step, phoneNumber, elderlyDetails,
                   isCapturing, streamRef, streams, cameraPending>>
    /\ UNCHANGED <<sessionVars, chatVars>>

(* the canvas had no context, or the fetch of /verify_elderly_face threw *)
VerifyFailure ==
    /\ \E r \in loginRequests :
          /\ r.kind = "verify_elderly_face"
          /\ loginRequests' = loginRequests \ {r}
    /\ loginError' = VerifyFailedError
    /\ faceVerificationFailures' = faceVerificationFailures + 1
    /\ loginIsLoading' = FALSE
    /\ UNCHANGED <<loginMounted, showWelcomeCard, step, phoneNumber, elderlyDetails,
                   isCapturing, streamRef, streams, cameraPending>>
    /\ UNCHANGED <<sessionVars, chatVars>>

(* handleBack *)
HandleBack ==
    /\ loginMounted
    /\ step = "face"
    /\ ~LeftButtonDisabled
    /\ LeftButton = "Back"
    /\ streams' = stopTracks(streams, streamRef)
    /\ streamRef' = Null
    /\ isCapturing' = FALSE
    /\ faceVerificationFailures' = 0
    /\ IF elderlyDetails # Null /\ phoneNumber = <<>>
       THEN step' = "start" /\ showWelcomeCard' = FALSE
       ELSE step' = "phone" /\ UNCHANGED showWelcomeCard
    /\ elderlyDetails' = Null
    /\ phoneNumber' = <<>>
    /\ loginError' = ""
    /\ UNCHANGED <<loginMounted, loginIsLoading, cameraPending, loginRequests>>
    /\ UNCHANGED <<sessionVars, chatVars>>

(* handleEnterNumber *)
HandleEnterNumber ==
    /\ loginMounted
    /\ step = "face"
    /\ ~LeftButtonDisabled
    /\ LeftButton = "Enter Number"
    /\ storage' = [storage EXCEPT !["elderlyToken"] = Null]
    /\ streams' = stopTracks(streams, streamRef)
    /\ streamRef' = Null
    /\ isCapturing' = FALSE
    /\ faceVerificationFailures' = 0
    /\ step' = "phone"
    /\ elderlyDetails' = Null
    /\ phoneNumber' = <<>>
    /\ loginError' = ""
    /\ UNCHANGED <<loginMounted, showWelcomeCard, loginIsLoading, cameraPending,
                   loginRequests>>
    /\ UNCHANGED <<now, token, elderlyData, lastActivity, tokenCreatedAt, logoutWarning,
                   intervalDue, pending, issued, advances, lastOp>>
    /\ UNCHANGED chatVars

NextLogin ==
    \/ HandleStart
    \/ DetailsSuccess
    \/ DetailsEmpty
    \/ DetailsFailure
    \/ HandlePhoneChange
    \/ HandlePhoneSubmit
    \/ StartCameraSuccess
    \/ StartCameraFailure
    \/ CaptureAndVerify
    \/ VerifySuccess
    \/ VerifyRejected
    \/ VerifyFailure
    \/ HandleBack
    \/ HandleEnterNumber

SpecLogin == InitLogin /\ [][NextLogin]_vars

(* Both pages of the client: a run that starts on the login page or on the *)
(* chat page                                                               *)
InitPages == InitLogin \/ InitChat

NextPages == NextLogin \/ NextChat

SpecPages == InitPages /\ [][NextPages]_vars

----------------------------------------------------------------------------
(* Properties *)

Minutes(m) == m * 60000
Hours(h) == h * 3600000

(* Time since lastActivity and since tokenCreatedAt, of a live session *)
Inactivity == now - Val(lastActivity)
TokenAge == now - Val(tokenCreatedAt)

Live == token # Null /\ lastActivity # Null /\ tokenCreatedAt # Null
Cleared == token = Null /\ elderlyData = Null /\ lastActivity = Null /\ tokenCreatedAt = Null

C2_InactivityLogoutClaim ==
    [][(CheckExpiration /\ Inactivity >= Minutes(15)) => Cleared']_vars

(* C3 (as claimed): a check run with token age >= 24 h clears token,        *)
(* profile and both timestamps, whatever the inactivity.                    *)
C3_TokenAgeLogoutClaim ==
    [][(CheckExpiration /\ TokenAge >= Hours(24)) => Cleared']_vars

C5_TieBreakClaim ==
    [][(CheckExpiration /\ Inactivity >= Minutes(14) /\ TokenAge >= Hours(23))
         => IF Inactivity < Minutes(15)
            THEN logoutWarning' = Some(InactivityWarning) /\ session' = session
            ELSE Cleared']_vars

(* C6: a check run with inactivity < 14 min and token age < 23 h leaves     *)
(* logoutWarning null and token, profile and timestamps unchanged.          *)
C6_QuietCheckClears ==
    [][(CheckExpiration /\ Inactivity < Minutes(14) /\ TokenAge < Hours(23))
         => (logoutWarning' = Null /\ session' = session)]_vars

(* C6 witness: a check has just run on a live session that is inside both   *)
(* limits, some time after its last activity.                               *)
C6_Witness ==
    /\ lastOp = "checkExpiration"
    /\ Live
    /\ logoutWarning = Null
    /\ Inactivity > 0 /\ Inactivity < Minutes(14)
    /\ TokenAge < Hours(23)

(* C7 (as claimed): logoutWarning is non-null only while the inactivity is  *)
(* in [14 min, 15 min) or the token age is in [23 h, 24 h).                 *)
C7_WarningWindowClaim ==
    logoutWarning # Null =>
        \/ lastActivity # Null /\ Inactivity >= Minutes(14) /\ Inactivity < Minutes(15)
        \/ tokenCreatedAt # Null /\ TokenAge >= Hours(23) /\ TokenAge < Hours(24)

(* C7 (amended): logoutWarning is non-null only on a live session whose     *)
(* inactivity is at least 14 min or whose token age is at least 23 h; the   *)
(* inactivity warning only when the inactivity is at least 14 min.          *)
C7_WarningOnlyPastThreshold ==
    logoutWarning # Null =>
        /\ Live
        /\ Inactivity >= Minutes(14) \/ TokenAge >= Hours(23)
        /\ logoutWarning = Some(InactivityWarning) => Inactivity >= Minutes(14)

(* C7 witness: a warning is still shown although the inactivity has passed  *)
(* 15 min since the check that set it.                                      *)
C7_Witness ==
    /\ logoutWarning = Some(InactivityWarning)
    /\ Live
    /\ Inactivity >= Minutes(15)

(* C8: logout(), explicit or forced, leaves token, profile, timestamps and  *)
(* warning null, removes the persisted profile and timestamps and leaves    *)
(* the persisted raw token as it was.                                       *)
C8_LogoutKeepsRawToken ==
    [][(Logout \/ (CheckExpiration /\ token' = Null))
         => (/\ Cleared'
             /\ logoutWarning' = Null
             /\ storage'["elderlyData"] = Null
             /\ storage'["elderlyLastActivity"] = Null
             /\ storage'["elderlyTokenCreatedAt"] = Null
             /\ storage'["elderlyToken"] = storage["elderlyToken"])]_vars

(* C8 witness: logout() has run on a session whose token stays persisted.   *)
C8_Witness ==
    /\ lastOp = "logout"
    /\ Cleared
    /\ storage["elderlyToken"] # Null

(* C9 (as claimed): a reload right after logout() gives a session that is   *)
(* not authenticated and that the login page does not redirect to /chat.    *)
C9_ReloadAfterLogoutClaim ==
    [][(lastOp = "logout" /\ Reload)
         => (~isAuthenticated' /\ ~LoginPageRedirects')]_vars

(* C10: login(token, profile) sets token and profile to its arguments, both *)
(* timestamps to the current instant, clears the warning, and persists the  *)
(* four values so that the lazy initialisers restore the same session.      *)
C10_LoginPersistsSession ==
    [][VerifiedLogin
         => \E newToken \in FreshTokens(issued + 1, now), data \in Profiles :
               /\ token' = Some(newToken)
               /\ elderlyData' = Some(data)
               /\ lastActivity' = Some(now)
               /\ tokenCreatedAt' = Some(now)
               /\ logoutWarning' = Null
               /\ InitToken(storage') = Some(newToken)
               /\ InitElderlyData(storage') = Some(data)
               /\ InitLastActivity(storage') = Some(now)
               /\ InitTokenCreatedAt(storage') = Some(now)]_vars

(* C10 witness: a login has replaced an earlier session at a later time.    *)
C10_Witness ==
    /\ lastOp = "login"
    /\ Live
    /\ issued >= 2
    /\ Inactivity = 0 /\ TokenAge = 0 /\ now > 0
    /\ InitToken(storage) = token
    /\ InitElderlyData(storage) = elderlyData

(* The value the last refreshActivity() call resolved to: true on the      *)
(* success branch, false on the two other return statements.                *)
refreshActivityReturned ==
    CASE lastOp = "refreshSuccess" -> Some(TRUE)
      [] lastOp \in {"refreshFailure", "refreshNoToken"} -> Some(FALSE)
      [] OTHER -> Null

(* C11: when a refreshActivity() call made with a token is answered with    *)
(* success and a new token, it returns true, the token in memory and in     *)
(* storage becomes the new token, lastActivity in memory and in storage     *)
(* becomes the current instant, and the logout warning is cleared.          *)
C11_RefreshSuccessExtends ==
    [][RefreshActivitySuccess
         => \E newToken \in FreshTokens(issued + 1, now) :
               /\ refreshActivityReturned' = Some(TRUE)
               /\ token' = Some(newToken)
               /\ InitToken(storage') = Some(newToken)
               /\ lastActivity' = Some(now)
               /\ InitLastActivity(storage') = Some(now)
               /\ logoutWarning' = Null]_vars

(* C11 witness: a refresh succeeded some time after the login that started  *)
(* the session, so the token and the last activity are newer than the login.*)
C11_Witness ==
    /\ lastOp = "refreshSuccess"
    /\ Live
    /\ Inactivity = 0
    /\ TokenAge > 0
    /\ InitToken(storage) = token
    /\ InitLastActivity(storage) = lastActivity

----------------------------------------------------------------------------
(* Properties of the chat page *)

(* the requests that are chat calls: they carry the elder's words and are   *)
(* answered with the assistant's reply                                      *)
ChatCalls(rs) == {r \in rs : r.kind \in {"chat", "process_text", "process_audio"}}

(* C13: the sessionId returned by the first successful chat call is cached, *)
(* every chat call issued after that sends exactly the cached sessionId,    *)
(* and a cached sessionId never changes.                                    *)
C13_SessionIdCachedClaim ==
    [][/\ (sessionId = Null /\ (VoiceChatSuccess \/ SendMessageSuccess))
            => sessionId' # Null
       /\ sessionId # Null
            => \A r \in ChatCalls(requests') \ ChatCalls(requests) : r.sid = sessionId
       /\ sessionId # Null => sessionId' = sessionId]_vars

(* captures that hold or are about to hold a stream: getUserMedia calls     *)
(* still awaited and recorders that are recording                           *)
Recording == {i \in 1..Len(recorders) : recorders[i].state = "recording"}
ActiveCaptures == Len(acquiring) + Cardinality(Recording)

(* C14: at most one audio capture is active or being acquired at any time,  *)
(* and every recorder that is recording is the one the page can stop.       *)
C14_SingleCaptureClaim ==
    /\ ActiveCaptures <= 1
    /\ \A i \in Recording : mediaRecorderRef = Some(i)

(* C15: when getUserMedia fails, the microphone error is reported and the   *)
(* pipeline is idle (isRecording false, microphone shown muted); no         *)
(* recorder is made, no upload is issued and the messages are unchanged.    *)
C15_AcquisitionFailureClaim ==
    [][AcquireFailure
         => /\ audioError' = MicrophoneError
            /\ ~isRecording'
            /\ isMicMuted'
            /\ recorders' = recorders
            /\ requests' = requests
            /\ messages' = messages]_vars

(* what can still clear isProcessingAudio: an upload awaiting its answer,   *)
(* or a capture whose upload is still to come                               *)
PipelineBusy ==
    \/ \E r \in requests : r.voice
    \/ \E i \in 1..Len(recorders) : recorders[i].state \in {"recording", "stopping"}
    \/ acquiring # <<>>

(* C16: the capture pipeline always returns to Idle: isProcessingAudio is   *)
(* true only while the pipeline is still at work, so that it becomes false  *)
(* and the microphone button usable again however the upload ends.          *)
C16_PipelineReturnsToIdleClaim ==
    isProcessingAudio => PipelineBusy

AssistantCount(ms) == Cardinality({i \in 1..Len(ms) : ms[i].role = "assistant"})

(* a chat call has been answered with a reply, which the page shows *)
ReplyShown ==
    /\ VoiceChatSuccess \/ SendMessageSuccess \/ ProcessTextResolve \/ ProcessAudioResolve
    /\ Len(messages') > Len(messages)

(* C17: every successful chat call whose answer carries a reply appends     *)
(* exactly one assistant message with that reply at the end of the list;    *)
(* the reply is never appended twice.                                       *)
C17_OneReplyClaim ==
    [][ReplyShown
         => /\ Len(messages') = Len(messages) + 1
            /\ messages'[Len(messages')] = Msg("assistant", Reply)
            /\ AssistantCount(messages') = AssistantCount(messages) + 1]_vars

(* a chat call has failed: it threw, or was answered without success *)
ChatCallFailed ==
    \/ TranscriptionFailure
    \/ VoiceChatFailure
    \/ SendMessageFailure
    \/ ProcessTextReject
    \/ ProcessAudioReject

(* C18: every failed chat call leaves a non-empty error string on the page  *)
(* (error or audioError) and appends no assistant message.                  *)
C18_FailureSurfacedClaim ==
    [][ChatCallFailed
         => /\ error' # "" \/ audioError' # ""
            /\ AssistantCount(messages') = AssistantCount(messages)]_vars

(* C19: the message list is append-only: every step leaves the messages it  *)
(* found as a prefix of the list and only adds at the end.                  *)
C19_AppendOnlyClaim ==
    [][/\ Len(messages') >= Len(messages)
       /\ SubSeq(messages', 1, Len(messages)) = messages]_vars

(* the messages a step has rewritten *)
Rewritten == {i \in 1..Len(messages) : messages'[i] # messages[i]}

(* C19 as it holds: no step removes or reorders a message or changes its    *)
(* role; the only rewrite is the answer to a recording replacing the text   *)
(* of the last "Voice message..." placeholder of the user by the transcript *)
(* (or the fallback text), and it rewrites that message only.               *)
C19_AppendOnlyButPlaceholder ==
    [][/\ Len(messages') >= Len(messages)
       /\ \A i \in Rewritten :
             /\ ProcessAudioResolve
             /\ messages[i] = Msg("user", Placeholder)
             /\ \A j \in PlaceholderIndexes(messages) : j <= i
             /\ messages'[i].role = "user"
             /\ messages'[i].content \in {Transcript, PlaceholderFallback}
       /\ Cardinality(Rewritten) <= 1]_vars

(* C19 witness: a typed message and a recording were both sent; the         *)
(* placeholder now reads the transcript and the typed message is intact.    *)
C19_Witness ==
    /\ page = "hook"
    /\ \E i, j \in 1..Len(messages) :
          /\ messages[i] = Msg("user", Transcript)
          /\ messages[j] = Msg("user", "hi")
          /\ i < j
    /\ PlaceholderIndexes(messages) = {}

(* C20: both timers are cancelled on teardown: the periodic expiry check    *)
(* fires only on a live session, and the debounced activity refresh fires   *)
(* only while the chat page is mounted.                                     *)
C20_TimersCancelledClaim ==
    [][/\ CheckExpiration => Live
       /\ ActivityTimeoutFires => mounted]_vars

----------------------------------------------------------------------------
(* Properties of the routes and of the login page *)

(* C22: the protected route never shows its children to an unauthenticated  *)
(* user: whenever isAuthenticated is false or the token is null it          *)
(* redirects to the login page and does not render the chat interface.      *)
C22_ProtectedRouteClaim ==
    (~isAuthenticated \/ token = Null)
        => (ProtectedRouteRedirects /\ ~ProtectedRouteRendersChildren)

(* C30: the login page redirects to /chat only when the context holds a     *)
(* token whose payload decodes, has an exp claim, and whose exp is not in   *)
(* the past; a token that does not decode or has no exp never redirects.    *)
C30_RedirectNeedsLiveExp ==
    LoginPageRedirects
        => /\ token # Null
           /\ decodeJWT(Val(token)) # Null
           /\ Val(decodeJWT(Val(token))).exp # Null
           /\ Val(Val(decodeJWT(Val(token))).exp) >= now \div 1000

(* C30 witness: the context holds a token without an exp claim after a      *)
(* login, and the login page does not redirect.                             *)
C30_Witness ==
    /\ isAuthenticated
    /\ decodeJWT(Val(token)) # Null
    /\ Val(decodeJWT(Val(token))).exp = Null
    /\ ~LoginPageRedirects

----------------------------------------------------------------------------
(* Properties of the activity timer and of the capture buffer *)

(* C24: every start or stop of a recording and every typing event leads to  *)
(* lastActivity being updated: the event either sets lastActivity to the    *)
(* current instant or arms the timer that will refresh it.                  *)
C24_ActivityOnEventsClaim ==
    [][(StartRecording \/ StopRecording \/ HandleInputChange)
         => \/ lastActivity' = Some(now)
            \/ (now + DebounceMs) \in timers']_vars

(* C27: typing and scrolling share one pending timer: every event cancels   *)
(* the timer that was pending and arms one due 1 s later, so a burst ends   *)
(* with exactly one refreshActivity call, 1 s after its last event.         *)
C27_DebouncedRefresh ==
    [][/\ (HandleInputChange \/ HandleScroll)
            => (timers' = {now + DebounceMs} /\ pending' = pending)
       /\ ActivityTimeoutFires
            => /\ timers = {Val(activityTimeout)}
               /\ now = Val(activityTimeout)
               /\ pending' = pending + 1
               /\ timers' = {}]_vars

(* C27 witness: a burst of two events half a second apart has ended with    *)
(* one refresh call, made 1 s after the second event.                       *)
C27_Witness ==
    /\ now = 2 * TickMs + DebounceMs
    /\ activityTimeout = Some(2 * TickMs + DebounceMs)
    /\ timers = {}
    /\ pending = 1

(* an upload has been answered or has failed *)
UploadCompleted ==
    \/ TranscriptionSuccess
    \/ TranscriptionFailure
    \/ ProcessAudioResolve
    \/ ProcessAudioReject

Uploads(rs) == {r \in rs : r.kind \in {"speech_to_text", "process_audio"}}

(* C25: the capture buffer is transient: it is empty once an upload has     *)
(* completed, and an upload holds no chunk of another capture.              *)
C25_TransientBufferClaim ==
    [][/\ UploadCompleted => audioChunksRef' = <<>>
       /\ \A r \in Uploads(requests') \ Uploads(requests) :
             \A k \in 1..Len(r.audio) : r.audio[k] = r.n]_vars

(* C28: a recording that is stopped issues exactly one upload, whose        *)
(* payload holds the non-empty chunks of that recording and no others, and  *)
(* its stream is stopped once the upload is over.                           *)
C28_StopUploadsOwnChunksClaim ==
    [][/\ (OnStop \/ OnStopOptimistic)
            => /\ Cardinality(Uploads(requests') \ Uploads(requests)) = 1
               /\ \A r \in Uploads(requests') \ Uploads(requests) :
                     \A k \in 1..Len(r.audio) : r.audio[k] = r.n
       /\ \A i \in 1..Len(recorders') :
             recorders'[i].state = "uploading"
                => \E r \in requests' : r.voice /\ r.n = recorders'[i].n]_vars

----------------------------------------------------------------------------
(* Properties of the login page *)

LeavesFaceStep == step = "face" /\ step' # "face"

(* C21: once five face verifications in a row have failed, the left button  *)
(* of the face step is Enter Number and no longer Back: leaving the face    *)
(* step then deletes the stored token, resets the count and leads to the    *)
(* phone step, while below five failures leaving it keeps the stored token. *)
C21_EnterNumberAfterFiveFailures ==
    [][LeavesFaceStep
         => IF faceVerificationFailures >= 5
            THEN /\ step' = "phone"
                 /\ storage'["elderlyToken"] = Null
                 /\ faceVerificationFailures' = 0
                 /\ elderlyDetails' = Null
            ELSE storage' = storage]_vars

(* C21 witness: the camera had been started from a stored token, and the    *)
(* page is on the phone step with the stored token deleted.                 *)
C21_Witness ==
    /\ loginMounted
    /\ step = "phone"
    /\ streams # <<>>
    /\ storage["elderlyToken"] = Null
    /\ faceVerificationFailures = 0

(* C23: login by phone number can complete: whenever the page is in the     *)
(* face step the user's details are loaded, and whenever its controls are   *)
(* disabled by isLoading a request is in flight whose answer enables them   *)
(* again, so the page is never left with every action disabled for ever.    *)
C23_PhoneLoginCompletesClaim ==
    loginMounted
      => /\ (step = "face" => elderlyDetails # Null)
         /\ (loginIsLoading => loginRequests # {})

PermissionErrors == {CameraError, MicrophoneError}

AcquisitionFailed == StartCameraFailure \/ AcquireFailure

BackendCallFailed ==
    \/ DetailsEmpty \/ DetailsFailure \/ VerifyRejected \/ VerifyFailure
    \/ TranscriptionFailure \/ VoiceChatFailure \/ SendMessageFailure
    \/ ProcessAudioReject \/ ProcessTextReject

(* the error values a step sets *)
NewErrors ==
    (IF loginError' # loginError THEN {loginError'} ELSE {})
      \cup (IF error' # error THEN {error'} ELSE {})
      \cup (IF audioError' # audioError THEN {audioError'} ELSE {})

----------------------------------------------------------------------------
(* Properties of the session across the pages *)

(* C31: the session in memory agrees with the session in localStorage: the  *)
(* profile, lastActivity and tokenCreatedAt are what the persisted entries  *)
(* decode to, and a token in memory is the persisted token.                 *)
C31_MemoryAgreesWithStorageClaim ==
    /\ elderlyData = InitElderlyData(storage)
    /\ lastActivity = InitLastActivity(storage)
    /\ tokenCreatedAt = InitTokenCreatedAt(storage)
    /\ (token # Null => storage["elderlyToken"] = token)

(* C32: a logout is final until the next login: a refreshActivity response  *)
(* that is handled when the token is null leaves token and lastActivity     *)
(* null.                                                                    *)
C32_LogoutIsFinalClaim ==
    [][((RefreshActivitySuccess \/ RefreshActivityFailure) /\ token = Null)
         => (token' = Null /\ lastActivity' = Null)]_vars

(* C33: every authenticated session has both timestamps, so that the expiry *)
(* effect arms its interval.                                                *)
C33_AuthenticatedIsArmedClaim ==
    isAuthenticated => (lastActivity # Null /\ tokenCreatedAt # Null)

(* C35: a forced logout for inactivity is announced.  When the last thing   *)
(* the provider did before the check that logs out was a login, a           *)
(* successful refresh or another check, no warning set for this period of   *)
(* inactivity can have been lost since, so a warning is still on display    *)
(* when the session is logged out.                                          *)
C35_InactivityLogoutAnnouncedClaim ==
    [][(/\ CheckExpiration
        /\ checkExpirationBranch(now, Val(lastActivity), Val(tokenCreatedAt))
              = "logoutInactivity"
        /\ lastOp \in {"login", "refreshSuccess", "checkExpiration"})
         => logoutWarning \in {Some(InactivityWarning), Some(TokenAgeWarning)}]_vars

(* C36: tokenCreatedAt is set by login() to the current instant and cleared *)
(* by logout(), and changes in no other way; refreshActivity leaves it and  *)
(* the profile alone whether it succeeds or fails; and a check on a session *)
(* that is active (inactivity below 14 min) logs out once the token is 24 h *)
(* old.                                                                     *)
C36_ActivityKeepsTokenAge ==
    [][/\ (tokenCreatedAt' # tokenCreatedAt)
            => \/ VerifiedLogin /\ tokenCreatedAt' = Some(now)
               \/ (Logout \/ CheckExpiration) /\ Cleared'
       /\ (RefreshActivitySuccess \/ RefreshActivityFailure)
            => (tokenCreatedAt' = tokenCreatedAt /\ elderlyData' = elderlyData)
       /\ (CheckExpiration /\ TokenAge >= Hours(24) /\ Inactivity < Minutes(14))
            => Cleared']_vars

(* C36 witness: a refresh has just succeeded on a session whose token is    *)
(* 24 h old: lastActivity is the current instant, tokenCreatedAt still the  *)
(* instant of the login.                                                    *)
C36_Witness ==
    /\ lastOp = "refreshSuccess"
    /\ Live
    /\ Inactivity = 0
    /\ TokenAge >= Hours(24)

(* C34: with the expiry interval firing and no refresh succeeding, a live   *)
(* session is eventually logged out, whatever its inactivity and token age  *)
(* at the start.                                                            *)
C34_LiveSessionEventuallyLoggedOut == Live ~> Cleared

(* C34 witness: a check has logged the session out after time has passed.   *)
C34_Witness ==
    /\ Cleared
    /\ lastOp = "checkExpiration"
    /\ advances > 0
    /\ now >= Hours(24)

(* C37: on the fetch-based page every request to /speech_to_text and to     *)
(* /chat/elderly carries the session token that is current when the request *)
(* is sent: never null, never one a refreshActivity has replaced.           *)
C37_RequestsCarryCurrentTokenClaim ==
    [][page = "fetch"
         => \A r \in requests' \ requests :
               r.kind \in {"speech_to_text", "chat"}
                  => (token # Null /\ r.tok = token)]_vars

(* C38: on the fetch-based page at most one request to /chat/elderly is in  *)
(* flight at any time, whatever the interleaving of typed sends, recordings *)
(* and responses.                                                           *)
C38_OneChatRequestInFlightClaim ==
    page = "fetch" => Cardinality({r \in requests : r.kind = "chat"}) <= 1

(* C39: on the hook-based page a typed send returns the page to a state     *)
(* that accepts input: isLoading is true only while the process_text call   *)
(* is still unanswered, so that it becomes false however the call ends.     *)
C39_TypedSendReturnsToInputClaim ==
    (page = "hook" /\ isLoading) => \E r \in requests : r.kind = "process_text"
====
